---- MODULE Spec2Model ----
(***************************************************************************)
(* RamanSolver (raman/raman.py): the lazily computed, cached Raman power   *)
(* profile and ASE profile of a fiber span, and the numerical kernels the  *)
(* two getters run.                                                        *)
(*                                                                         *)
(* Numbers.  Frequencies, lengths, powers and coefficients are integers in *)
(* model units.  Values the code computes with exp, sqrt and true division *)
(* are fixed-point numbers with unit One (the real number 1.0 is One).     *)
(***************************************************************************)
EXTENDS Integers, Sequences, FiniteSets, TLC

VARIABLES
    _fiber_information,       \* self._fiber_information
    _solver_params,           \* self._solver_params
    _spectral_information,    \* self._spectral_information
    _raman_pump_information,  \* self._raman_pump_information
    _raman_bvp_solution,      \* self._raman_bvp_solution (the cached profile)
    _raman_ase_solution,      \* self._raman_ase_solution (the cached ASE profile)
    last_op,                  \* the operation that ran last
    ret,                      \* what that operation returned or raised
    power_aselin,             \* local power_aselin of the last raman_ase_solution read
    since_write,              \* history since the last setter write
    coef,                     \* coefficient set-up run on its own
    kernel                    \* grid, boundary residual or ODE kernel run on its own

vars == << _fiber_information, _solver_params, _spectral_information,
           _raman_pump_information, _raman_bvp_solution, _raman_ase_solution,
           last_op, ret, power_aselin, since_write, coef, kernel >>

solver_vars == << _fiber_information, _solver_params, _spectral_information,
                  _raman_pump_information, _raman_bvp_solution,
                  _raman_ase_solution, last_op, ret, power_aselin,
                  since_write >>

----------------------------------------------------------------------------
\* Bounds of the model.

\* Longest fiber, in metres; fibers are MaxLength - 1 or MaxLength long.
MaxLength == 5
\* Largest launch power and largest power value in a BVP solution.
MaxPower == 2
\* Largest number of solve_bvp invocations between two setter writes.
MaxCalls == 2
\* Fixed-point unit: the real number 1.0.
One == 16
\* Exponents are clamped to -ExpCap .. ExpCap before exponentiation.
ExpCap == 4
\* Largest coefficient value of a sample table in the coefficient set-up runs.
MaxCoef == 2
\* Largest frequency of a sample or a slice in the coefficient set-up runs.
MaxFreq == 3

----------------------------------------------------------------------------
\* Python values.

None == [kind |-> "None"]
Raise(e) == [kind |-> "raise", exc |-> e]
Ok(v) == [kind |-> "ok", val |-> v]

Abs(x) == IF x < 0 THEN -x ELSE x
Min(a, b) == IF a < b THEN a ELSE b
Max(a, b) == IF a < b THEN b ELSE a

RECURSIVE SeqSum(_)
SeqSum(s) == IF s = << >> THEN 0 ELSE Head(s) + SeqSum(Tail(s))

\* Truncating integer division, also for a negative numerator.
Div(a, b) == IF a >= 0 THEN a \div b ELSE -((-a) \div b)

\* np.exp on an integer argument, as a fixed-point number (base 2, clamped).
np_exp(x) ==
    IF x >= 0 THEN One * 2 ^ Min(x, ExpCap)
    ELSE One \div 2 ^ Min(-x, ExpCap)

\* np.sqrt of a fixed-point number, as a fixed-point number.
np_sqrt(q) == CHOOSE r \in 0 .. (One * (MaxPower + 1)) :
                  /\ r * r <= q * One
                  /\ \/ (r + 1) * (r + 1) > q * One
                     \/ r = One * (MaxPower + 1)

\* np.arange(start, stop, step) for step > 0.
np_arange(start, stop, step) ==
    LET n == IF stop > start THEN (stop - start + step - 1) \div step ELSE 0
    IN  [k \in 1 .. n |-> start + (k - 1) * step]

\* scipy.integrate.cumtrapz(y, x, initial=0) on one row.
cumtrapz(y, x) ==
    LET c[k \in 1 .. Len(y)] ==
            IF k = 1 THEN 0
            ELSE c[k - 1] + Div((x[k] - x[k - 1]) * (y[k] + y[k - 1]), 2)
    IN  [k \in 1 .. Len(y) |-> c[k]]

\* interp1d(xs, ys) accepts x only inside the sampled range (bounds_error).
InRange(xs, x) == xs[1] <= x /\ x <= xs[Len(xs)]

\* interp1d(xs, ys)(x): linear interpolation between the neighbouring samples.
interp1d(xs, ys, x) ==
    LET i == CHOOSE j \in 1 .. (Len(xs) - 1) : xs[j] <= x /\ x <= xs[j + 1]
    IN  ys[i] + Div((ys[i + 1] - ys[i]) * (x - xs[i]), xs[i + 1] - xs[i])

----------------------------------------------------------------------------
\* The inputs a caller hands to the solver (examples/main_raman_amplifier.py).

\* AttenuationCoefficient(alpha_power, frequency): one sample, or two samples
\* over the frequencies 1 .. 3.
AttenuationTables ==
    { [alpha_power |-> << 1 >>, frequency |-> << 2 >>],
      [alpha_power |-> << 0, 2 >>, frequency |-> << 1, 3 >>] }

\* RamanCoefficient(cr, frequency): one sample, or two samples over the
\* frequency offsets 0 .. 2.
RamanTables ==
    { [cr |-> << 1 >>, frequency |-> << 0 >>],
      [cr |-> << 0, 2 >>, frequency |-> << 0, 2 >>] }

\* FiberInformation(length, attenuation_coefficient, raman_coefficient).
Fibers ==
    { [ kind |-> "FiberInformation",
        length |-> l,
        attenuation_coefficient |-> t[1],
        raman_coefficient |-> t[2] ] :
      l \in (MaxLength - 1) .. MaxLength,
      t \in { c \in AttenuationTables \X RamanTables :
                 Len(c[1].alpha_power) = Len(c[2].cr) } }

\* RamanSolverInformation(z_resolution, tolerance, verbose).
SolverParams ==
    [ kind : {"RamanSolverInformation"},
      z_resolution : {2, 3}, tolerance : {1}, verbose : {FALSE} ]

\* SpectralInformation(carriers): one carrier (frequency, power).
SpectralInfos ==
    { [kind |-> "SpectralInformation",
       carriers |-> << [frequency |-> 1, power |-> p] >>] : p \in {1, MaxPower} }

\* SpectralInformation(raman_pumps): no pump, or one pump (power, frequency,
\* propagation_direction): a backward pump at frequency 3 or a forward pump
\* at frequency 4.
PumpInfos ==
    { [kind |-> "RamanPumpInformation", raman_pumps |-> << >>] } \cup
    { [kind |-> "RamanPumpInformation",
       raman_pumps |-> << [power |-> MaxPower, frequency |-> f,
                           propagation_direction |-> IF f = 3 THEN -1 ELSE 1] >>] :
          f \in {3, 4} }

\* What a caller can hold when it reads: the four input slots.
CurrentInputs ==
    [ fiber_information |-> _fiber_information,
      spectral_information |-> _spectral_information,
      raman_pump_information |-> _raman_pump_information,
      solver_params |-> _solver_params ]

----------------------------------------------------------------------------
\* Power-spectrum builder (raman.utilities.compute_power_spectrum).

\* Carriers first, forward; then the pumps with their declared direction; the
\* order the caller gave is kept.  A missing pump ensemble adds no slice; a
\* missing spectral input is a configuration error.
compute_power_spectrum(spectral_info, raman_pump_information) ==
    LET carriers == spectral_info.carriers
        pumps == IF raman_pump_information.kind = "None" THEN << >>
                 ELSE raman_pump_information.raman_pumps
    IN  IF spectral_info.kind = "None" THEN Raise("ConfigurationError") ELSE
        [ kind |-> "ok",
          power_spectrum |->
              [i \in 1 .. Len(carriers) |-> carriers[i].power] \o
              [i \in 1 .. Len(pumps) |-> pumps[i].power],
          freq_array |->
              [i \in 1 .. Len(carriers) |-> carriers[i].frequency] \o
              [i \in 1 .. Len(pumps) |-> pumps[i].frequency],
          prop_direct |->
              [i \in 1 .. Len(carriers) |-> 1] \o
              [i \in 1 .. Len(pumps) |-> pumps[i].propagation_direction] ]

----------------------------------------------------------------------------
\* Coefficient set-up (raman_bvp_solution and raman_ase_solution alike).

\* The mutant of alphap_fiber_of: the scalar branch drops the sample value.
alphap_fiber_ones(attenuation_coefficient, freq_array) ==
    IF Len(attenuation_coefficient.alpha_power) >= 2
    THEN IF \A i \in 1 .. Len(freq_array) :
                InRange(attenuation_coefficient.frequency, freq_array[i])
         THEN Ok([i \in 1 .. Len(freq_array) |->
                     interp1d(attenuation_coefficient.frequency,
                              attenuation_coefficient.alpha_power,
                              freq_array[i])])
         ELSE Raise("ValueError")
    ELSE Ok([i \in 1 .. Len(freq_array) |-> 1])

\* alphap_fiber: the attenuation table interpolated onto the slice
\* frequencies when it has two samples or more, else its one sample for every
\* slice.
alphap_fiber_of(attenuation_coefficient, freq_array) ==
    IF Len(attenuation_coefficient.alpha_power) >= 2
    THEN IF \A i \in 1 .. Len(freq_array) :
                InRange(attenuation_coefficient.frequency, freq_array[i])
         THEN Ok([i \in 1 .. Len(freq_array) |->
                     interp1d(attenuation_coefficient.frequency,
                              attenuation_coefficient.alpha_power,
                              freq_array[i])])
         ELSE Raise("ValueError")
    ELSE Ok([i \in 1 .. Len(freq_array) |->
                attenuation_coefficient.alpha_power[1]])

\* freq_diff[i][j] = |f_j - f_i|.
freq_diff_of(freq_array) ==
    [i \in 1 .. Len(freq_array) |->
        [j \in 1 .. Len(freq_array) |-> Abs(freq_array[j] - freq_array[i])]]

\* cr: the Raman table interpolated onto the pairwise frequency offsets when
\* it has two samples or more, else its one sample for every pair.
cr_of(raman_coefficient, freq_diff) ==
    IF Len(raman_coefficient.cr) >= 2
    THEN IF \A i \in 1 .. Len(freq_diff) : \A j \in 1 .. Len(freq_diff) :
                InRange(raman_coefficient.frequency, freq_diff[i][j])
         THEN Ok([i \in 1 .. Len(freq_diff) |->
                    [j \in 1 .. Len(freq_diff) |->
                        interp1d(raman_coefficient.frequency,
                                 raman_coefficient.cr, freq_diff[i][j])]])
         ELSE Raise("ValueError")
    ELSE Ok([i \in 1 .. Len(freq_diff) |->
                [j \in 1 .. Len(freq_diff) |-> raman_coefficient.cr[1]]])

----------------------------------------------------------------------------
\* The boundary-value problem.

\* _residuals_raman with the start of the grid taken for every slice.
_residuals_raman_ya(ya, yb, power_spectrum, prop_direct) ==
    [index \in 1 .. Len(ya) |-> power_spectrum[index] - ya[index]]

\* _residuals_raman: target power minus the value at the start of the grid
\* for a slice of direction +1, at the end of the grid for any other slice.
_residuals_raman(ya, yb, power_spectrum, prop_direct) ==
    LET computed_boundary_value ==
            [index \in 1 .. Len(ya) |->
                IF prop_direct[index] = 1 THEN ya[index] ELSE yb[index]]
    IN  [index \in 1 .. Len(ya) |->
            power_spectrum[index] - computed_boundary_value[index]]

\* _initial_guess_raman: row f_index is exp(-alphap_fiber * z) * power_slice
\* for a slice of direction +1 and the same over z reversed for any other
\* slice.  Fixed-point values.
_initial_guess_raman(z, power_spectrum, alphap_fiber, prop_direct) ==
    [f_index \in 1 .. Len(power_spectrum) |->
        IF prop_direct[f_index] = 1
        THEN [k \in 1 .. Len(z) |->
                 np_exp(-alphap_fiber[f_index] * z[k])
                 * power_spectrum[f_index]]
        ELSE [k \in 1 .. Len(z) |->
                 np_exp(-alphap_fiber[f_index] * z[Len(z) + 1 - k])
                 * power_spectrum[f_index]]]

\* Product of the entries of a sequence.
RECURSIVE SeqProd(_)
SeqProd(s) == IF s = << >> THEN 1 ELSE Head(s) * SeqProd(Tail(s))

\* The ratios of _ode_raman are exact rationals: every value that holds one
\* is the numerator over the common denominator SeqProd(freq_array), which
\* every frequency divides.

\* vibrational_loss with the ratio upside down: freq_array[:f_ind] over
\* freq_array[f_ind].
vibrational_loss_inverse(freq_array, f_ind) ==
    [j \in 1 .. (f_ind - 1) |->
        freq_array[j] * (SeqProd(freq_array) \div freq_array[f_ind])]

\* vibrational_loss = freq_array[f_ind] / freq_array[:f_ind] (numerators).
vibrational_loss_of(freq_array, f_ind) ==
    [j \in 1 .. (f_ind - 1) |->
        freq_array[f_ind] * (SeqProd(freq_array) \div freq_array[j])]

\* cr_raman[f_ind+1:] * power_spectrum[f_ind+1:, z_ind]; entry t is the term
\* of slice f_ind + t.
raman_gain_terms(f_ind, z_ind, power_spectrum, cr_raman_matrix) ==
    [t \in 1 .. (Len(power_spectrum) - f_ind) |->
        cr_raman_matrix[f_ind][f_ind + t] * power_spectrum[f_ind + t][z_ind]]

\* vibrational_loss * cr_raman[:f_ind] * power_spectrum[:f_ind, z_ind]
\* (numerators).
raman_loss_terms(f_ind, z_ind, power_spectrum, freq_array, cr_raman_matrix) ==
    [j \in 1 .. (f_ind - 1) |->
        vibrational_loss_of(freq_array, f_ind)[j]
        * cr_raman_matrix[f_ind][j] * power_spectrum[j][z_ind]]

\* _ode_raman: dpdz[f_ind][z_ind] (numerators).  z is not used.
_ode_raman(z, power_spectrum, alphap_fiber, freq_array, cr_raman_matrix, prop_direct) ==
    LET den == SeqProd(freq_array)
    IN  [f_ind \in 1 .. Len(power_spectrum) |->
            [z_ind \in 1 .. Len(power_spectrum[f_ind]) |->
                LET power_sample == power_spectrum[f_ind][z_ind]
                    raman_gain ==
                        SeqSum(raman_gain_terms(f_ind, z_ind, power_spectrum,
                                                cr_raman_matrix))
                    raman_loss ==
                        SeqSum(raman_loss_terms(f_ind, z_ind, power_spectrum,
                                                freq_array, cr_raman_matrix))
                IN  prop_direct[f_ind]
                    * (-alphap_fiber[f_ind] * den + raman_gain * den
                       - raman_loss)
                    * power_sample]]

\* solve_bvp status: 0 converged; 1 stands for every failure status (the
\* code reads neither status nor success).
Statuses == {0, 1}

PowerVals == 1 .. MaxPower

\* The results scipy.integrate.solve_bvp can hand back for the boundary
\* residual of _residuals_raman on the mesh z: an object with the mesh x, a
\* solution y (one row per slice: its value at the start of the mesh, kept
\* over the interior, and its value at the end) and a status.  A converged
\* result has a zero boundary residual; a failed one is drawn from the rows
\* that are constant along z.
solve_bvp(z, power_spectrum, prop_direct) ==
    LET n == Len(power_spectrum)
        m == Len(z)
        Y(e) == [i \in 1 .. n |->
                    [k \in 1 .. m |-> IF k = m THEN e[i][2] ELSE e[i][1]]]
        ya(y) == [i \in 1 .. n |-> y[i][1]]
        yb(y) == [i \in 1 .. n |-> y[i][m]]
    IN  { [kind |-> "OdeResult", x |-> z, y |-> Y(e), status |-> s] :
            << e, s >> \in
              { c \in [1 .. n -> PowerVals \X PowerVals] \X Statuses :
                  IF c[2] = 0
                  THEN \A i \in 1 .. n :
                        _residuals_raman(ya(Y(c[1])), yb(Y(c[1])),
                                         power_spectrum, prop_direct)[i] = 0
                  ELSE \A i \in 1 .. n : c[1][i][1] = c[1][i][2] } }

\* The mutant of rho_of: the closing transpose is forgotten, so rho comes out
\* with one row per grid point.
rho_of_no_transpose(y, power_spectrum) ==
    [k \in 1 .. Len(y[1]) |->
        [i \in 1 .. Len(y) |->
            np_sqrt((y[i][k] * One) \div power_spectrum[i])]]

\* rho = sqrt(y / power_spectrum), row by row.
rho_of(y, power_spectrum) ==
    [i \in 1 .. Len(y) |->
        [k \in 1 .. Len(y[i]) |->
            np_sqrt((y[i][k] * One) \div power_spectrum[i])]]

----------------------------------------------------------------------------
\* The ASE integrator.

\* h * df / (Kb * T): the model's frequency unit is Kb * T / h.
hOverKbT(df) == df

\* h * f * Bn: the model's power unit makes h * Bn one.
hfBn(f) == f

\* numpy broadcasting of a vector of length a against b matrix rows.
BroadcastOk(a, b) == a = b \/ a = 1 \/ b = 1

\* sum over j of u[j] * M[j][k], u and M broadcast against each other.
BroadcastSum(u, M, k) ==
    LET a == Len(u)
        b == Len(M)
        c == IF a = 1 THEN b ELSE a
    IN  SeqSum([j \in 1 .. c |->
                   u[IF a = 1 THEN 1 ELSE j] * M[IF b = 1 THEN 1 ELSE j][k]])

\* The mutant of pase0_of: one where the code has zero.
pase0_ones(freq_array) == [i \in 1 .. Len(freq_array) |-> 1]

\* pase0 = np.zeros(freq_array.shape)
pase0_of(freq_array) == [i \in 1 .. Len(freq_array) |-> 0]

\* _ase_int: for every slice f of freq_array, exp(A) times the running
\* integral of B exp(-A), plus pase0 exp(A).  raman_matrix and z_array come
\* from the cached profile, the other arguments from the current inputs; the
\* result has the rows of raman_matrix, and those past freq_array stay nan.
\* Slice frequencies are pairwise different, so eta is finite where used.
_ase_int(z_array, raman_matrix, alphap_fiber, freq_array, cr_raman_matrix, freq_diff, pase0) ==
    LET n_new == Len(freq_array)
        n_old == Len(raman_matrix)
        m == Len(z_array)
        int_pump == [j \in 1 .. n_old |-> cumtrapz(raman_matrix[j], z_array)]
        vibrational_loss(f) ==
            [j \in 1 .. (f - 1) |-> (freq_array[f] * One) \div freq_array[j]]
        eta(f, j) ==
            (One * One) \div (np_exp(hOverKbT(freq_diff[f][j])) - One)
        lossU(f) ==
            [j \in 1 .. (f - 1) |-> cr_raman_matrix[f][j] * vibrational_loss(f)[j]]
        lossM(f) == [j \in 1 .. Min(f - 1, n_old) |-> int_pump[j]]
        gainU(f) == [j \in 1 .. (n_new - f) |-> cr_raman_matrix[f][f + j]]
        gainM(f) == [j \in 1 .. Max(n_old - f, 0) |-> int_pump[f + j]]
        srcU(f) ==
            [j \in 1 .. (n_new - f) |->
                cr_raman_matrix[f][f + j] * (One + eta(f, f + j))]
        srcM(f) == [j \in 1 .. Max(n_old - f, 0) |-> raman_matrix[f + j]]
        int_A(f) ==
            [k \in 1 .. m |->
                (-alphap_fiber[f] * z_array[k])
                + BroadcastSum(gainU(f), gainM(f), k)
                + Div(BroadcastSum(lossU(f), lossM(f), k), One)]
        B(f) ==
            [k \in 1 .. m |->
                BroadcastSum(srcU(f), srcM(f), k) * hfBn(freq_array[f])]
        integrand(f) ==
            [k \in 1 .. m |-> (B(f)[k] * np_exp(-int_A(f)[k])) \div One]
        row(f) ==
            LET A == int_A(f)
                I == cumtrapz(integrand(f), z_array)
            IN  [k \in 1 .. m |->
                    pase0[f] * np_exp(A[k]) + (np_exp(A[k]) * I[k]) \div One]
        err(f) ==
            IF ~BroadcastOk(f - 1, Min(f - 1, n_old)) THEN "ValueError"
            ELSE IF ~BroadcastOk(n_new - f, Max(n_old - f, 0)) THEN "ValueError"
            ELSE IF f > n_old THEN "IndexError"
            ELSE "no"
        bad == {f \in 1 .. n_new : err(f) # "no"}
    IN  IF bad # {}
        THEN Raise(err(CHOOSE f \in bad : \A g \in bad : f <= g))
        ELSE [kind |-> "ok",
              val |-> [f \in 1 .. n_new |-> row(f)],
              nan_rows |-> n_old - n_new]

----------------------------------------------------------------------------
\* The two getters' computations.

\* Lines 187-214 of raman_bvp_solution, 88-115 of raman_ase_solution: read
\* the inputs and set up the coefficients.  Raise(..), or the local values.
setup ==
    IF _fiber_information.kind = "None" THEN Raise("AttributeError")
    ELSE IF _solver_params.kind = "None" THEN Raise("AttributeError")
    ELSE
      LET ps == compute_power_spectrum(_spectral_information,
                                       _raman_pump_information)
          alphap_fiber ==
              alphap_fiber_of(_fiber_information.attenuation_coefficient,
                              ps.freq_array)
          freq_diff == freq_diff_of(ps.freq_array)
          cr == cr_of(_fiber_information.raman_coefficient, freq_diff)
      IN  IF ps.kind = "raise" THEN ps
          ELSE IF alphap_fiber.kind = "raise" THEN alphap_fiber
          ELSE IF cr.kind = "raise" THEN cr
          ELSE [ kind |-> "ok",
                 power_spectrum |-> ps.power_spectrum,
                 freq_array |-> ps.freq_array,
                 prop_direct |-> ps.prop_direct,
                 alphap_fiber |-> alphap_fiber.val,
                 freq_diff |-> freq_diff,
                 cr |-> cr.val ]

\* z = np.arange(0, fiber_length+1, z_resolution)
z_of(fiber_length, z_resolution) == np_arange(0, fiber_length + 1, z_resolution)

\* The identity of a newly built object: different from every object the
\* solver or its caller still holds.
NewId ==
    LET live == { since_write.prev, since_write.first } \cup
                { IF _raman_bvp_solution.kind = "profile"
                    THEN _raman_bvp_solution.id ELSE 0 }
    IN  CHOOSE i \in 1 .. 4 : i \notin live /\ \A j \in 1 .. (i - 1) : j \in live

\* Lines 216-236 of raman_bvp_solution: the objects the getter can build from
\* the set-up s, with identity id: solve_bvp's result with frequency, z, rho and
\* power attached.  computed_from records the inputs it was built from.
profiles(s, id) ==
    { [ kind |-> "profile",
        id |-> id,
        status |-> sol.status,
        frequency |-> s.freq_array,
        z |-> sol.x,
        rho |-> rho_of(sol.y, s.power_spectrum),
        power |-> sol.y,
        computed_from |-> CurrentInputs ] :
      sol \in solve_bvp(z_of(_fiber_information.length,
                             _solver_params.z_resolution),
                        s.power_spectrum, s.prop_direct) }

\* The mutant of ase_store: line 144 as an assignment that is carried out.
ase_store_assign(cached, computed) == computed

\* Lines 143-146 of raman_ase_solution: the assignment to
\* self._raman_ase_solution is commented out, so the slot keeps its value.
ase_store(cached, computed) == cached

\* The history kept since the last setter write: which setter, the id of the
\* profile the cache held before it (0: none), whether the write followed a
\* read that failed on a missing input, whether the cache was empty after it,
\* the reads of raman_bvp_solution that returned since (at most 2 counted),
\* the solve_bvp invocations since, and the id the first such read returned.
Written(by, cache_after) ==
    [ by |-> by,
      prev |-> IF _raman_bvp_solution.kind = "profile"
                 THEN _raman_bvp_solution.id ELSE 0,
      after_fail |-> last_op = "raman_bvp_solution"
                       /\ ret = Raise("AttributeError"),
      empty |-> cache_after.kind = "None",
      reads |-> 0,
      calls |-> 0,
      first |-> 0 ]

----------------------------------------------------------------------------
\* The state machine.

\* RamanSolver(fiber_information=None) or RamanSolver(fiber).
Init ==
    /\ _fiber_information \in Fibers \cup {None}
    /\ _solver_params = None
    /\ _spectral_information = None
    /\ _raman_pump_information = None
    /\ _raman_bvp_solution = None
    /\ _raman_ase_solution = None
    /\ last_op = "__init__"
    /\ ret = None
    /\ power_aselin = None
    /\ since_write = [ by |-> "__init__", prev |-> 0, after_fail |-> FALSE,
                       empty |-> TRUE, reads |-> 0, calls |-> 0, first |-> 0 ]
    /\ coef = [pc |-> "idle"]
    /\ kernel = [pc |-> "idle"]

\* fiber_information setter.
SetFiberInformation ==
    \E v \in Fibers :
        /\ _fiber_information' = v
        /\ _raman_bvp_solution' = None
        /\ last_op' = "fiber_information="
        /\ ret' = None
        /\ power_aselin' = None
        /\ since_write' = Written("fiber_information", None)
        /\ UNCHANGED << _solver_params, _spectral_information,
                        _raman_pump_information, _raman_ase_solution,
                        coef, kernel >>

\* spectral_information setter.
SetSpectralInformation ==
    \E v \in SpectralInfos :
        /\ _spectral_information' = v
        /\ _raman_bvp_solution' = None
        /\ last_op' = "spectral_information="
        /\ ret' = None
        /\ power_aselin' = None
        /\ since_write' = Written("spectral_information", None)
        /\ UNCHANGED << _fiber_information, _solver_params,
                        _raman_pump_information, _raman_ase_solution,
                        coef, kernel >>

\* raman_pump_information setter: the cached profile is left as it is.
SetRamanPumpInformation ==
    \E v \in PumpInfos :
        /\ _raman_pump_information' = v
        /\ last_op' = "raman_pump_information="
        /\ ret' = None
        /\ power_aselin' = None
        /\ since_write' = Written("raman_pump_information", _raman_bvp_solution)
        /\ UNCHANGED << _fiber_information, _solver_params,
                        _spectral_information, _raman_bvp_solution,
                        _raman_ase_solution, coef, kernel >>

\* The mutant of SetSolverParams: the cached profile is left as it is.
SetSolverParamsKeepCache ==
    \E v \in SolverParams :
        /\ _solver_params' = v
        /\ last_op' = "solver_params="
        /\ ret' = None
        /\ power_aselin' = None
        /\ since_write' = Written("solver_params", _raman_bvp_solution)
        /\ UNCHANGED << _fiber_information, _spectral_information,
                        _raman_pump_information, _raman_bvp_solution,
                        _raman_ase_solution, coef, kernel >>

\* solver_params setter.
SetSolverParams ==
    \E v \in SolverParams :
        /\ _solver_params' = v
        /\ _raman_bvp_solution' = None
        /\ last_op' = "solver_params="
        /\ ret' = None
        /\ power_aselin' = None
        /\ since_write' = Written("solver_params", None)
        /\ UNCHANGED << _fiber_information, _spectral_information,
                        _raman_pump_information, _raman_ase_solution,
                        coef, kernel >>

\* The mutant of must_compute: the getter never trusts its cache.
must_compute_always(cached) == TRUE

\* `if self._raman_bvp_solution is None:` (and the same test of the ASE slot).
must_compute(cached) == cached.kind = "None"

\* One more read of raman_bvp_solution has returned.
Returned(p, computed) ==
    [ since_write EXCEPT
        !.reads = Min(@ + 1, 2),
        !.calls = @ + (IF computed THEN 1 ELSE 0),
        !.first = IF since_write.reads = 0 THEN p.id ELSE @ ]

\* Read of the property raman_bvp_solution.
ReadRamanBvpSolution ==
    /\ last_op' = "raman_bvp_solution"
    /\ power_aselin' = None
    /\ IF must_compute(_raman_bvp_solution)
       THEN LET s == setup
            IN  IF s.kind = "raise"
                THEN /\ ret' = s
                     /\ UNCHANGED << _raman_bvp_solution, since_write >>
                ELSE /\ since_write.calls < MaxCalls
                     /\ \E p \in profiles(s, NewId) :
                           /\ _raman_bvp_solution' = p
                           /\ ret' = p
                           /\ since_write' = Returned(p, TRUE)
       ELSE /\ ret' = _raman_bvp_solution
            /\ since_write' = Returned(_raman_bvp_solution, FALSE)
            /\ UNCHANGED _raman_bvp_solution
    /\ UNCHANGED << _fiber_information, _solver_params, _spectral_information,
                    _raman_pump_information, _raman_ase_solution, coef, kernel >>

\* Read of the property raman_ase_solution.  Plotting is left out.
ReadRamanAseSolution ==
    /\ last_op' = "raman_ase_solution"
    /\ IF must_compute(_raman_ase_solution)
       THEN LET s == setup
            IN  IF s.kind = "raise"
                THEN /\ ret' = s
                     /\ power_aselin' = None
                     /\ UNCHANGED << _raman_bvp_solution, _raman_ase_solution,
                                     since_write >>
                ELSE LET fresh == must_compute(_raman_bvp_solution)
                     IN  /\ fresh => since_write.calls < MaxCalls
                         /\ since_write' =
                              [since_write EXCEPT
                                 !.calls = @ + (IF fresh THEN 1 ELSE 0)]
                         /\ \E p \in (IF fresh THEN profiles(s, NewId)
                                      ELSE {_raman_bvp_solution}) :
                              LET a == _ase_int(p.z, p.power, s.alphap_fiber,
                                                s.freq_array, s.cr, s.freq_diff,
                                                pase0_of(s.freq_array))
                              IN  /\ _raman_bvp_solution' = p
                                  /\ IF a.kind = "raise"
                                     THEN /\ ret' = a
                                          /\ power_aselin' = None
                                          /\ UNCHANGED _raman_ase_solution
                                     ELSE /\ power_aselin' = a
                                          /\ _raman_ase_solution' =
                                               ase_store(_raman_ase_solution,
                                                 [ kind |-> "AseProfile",
                                                   of |-> p.id,
                                                   z |-> p.z,
                                                   frequency |-> s.freq_array,
                                                   power |-> a.val ])
                                          /\ ret' = _raman_ase_solution'
       ELSE /\ ret' = _raman_ase_solution
            /\ power_aselin' = None
            /\ UNCHANGED << _raman_bvp_solution, _raman_ase_solution,
                            since_write >>
    /\ UNCHANGED << _fiber_information, _solver_params, _spectral_information,
                    _raman_pump_information, coef, kernel >>

Next ==
    \/ SetFiberInformation
    \/ SetSpectralInformation
    \/ SetRamanPumpInformation
    \/ SetSolverParams
    \/ ReadRamanBvpSolution
    \/ ReadRamanAseSolution

Spec == Init /\ [][Next]_vars

----------------------------------------------------------------------------
\* The coefficient set-up on its own: the attenuation vector and the coupling
\* matrix of one slice list, built from a one-sample table of value c and from
\* a table over the frequencies axis whose samples all are c.

\* Strictly increasing sample frequencies, two or three of them.
CoefAxes ==
    { a \in UNION { [1 .. n -> 0 .. MaxFreq] : n \in 2 .. 3 } :
        \A i \in 1 .. (Len(a) - 1) : a[i] < a[i + 1] }

\* One or two slices of different frequencies, in the caller's order.
CoefSlices ==
    { f \in UNION { [1 .. n -> 1 .. MaxFreq] : n \in 1 .. 2 } :
        \A i, j \in 1 .. Len(f) : i # j => f[i] # f[j] }

\* Lines 203-214 (and 104-115) on the tables (values, frequency).
coefficients(values, frequency, freq_array) ==
    [ alphap_fiber |->
          alphap_fiber_of([alpha_power |-> values, frequency |-> frequency],
                          freq_array),
      cr |-> cr_of([cr |-> values, frequency |-> frequency],
                   freq_diff_of(freq_array)) ]

SolverIdle ==
    /\ _fiber_information = None
    /\ _solver_params = None
    /\ _spectral_information = None
    /\ _raman_pump_information = None
    /\ _raman_bvp_solution = None
    /\ _raman_ase_solution = None
    /\ last_op = "__init__"
    /\ ret = None
    /\ power_aselin = None
    /\ since_write = [ by |-> "__init__", prev |-> 0, after_fail |-> FALSE,
                       empty |-> TRUE, reads |-> 0, calls |-> 0, first |-> 0 ]

CoefInit ==
    /\ SolverIdle
    /\ coef \in [ pc : {"run"}, c : 0 .. MaxCoef, axis : CoefAxes,
                   freq_array : CoefSlices, single : {None}, multi : {None} ]
    /\ kernel = [pc |-> "idle"]

\* The set-up with the one-sample table.
BuildSingle ==
    /\ coef.pc = "run"
    /\ coef.single = None
    /\ coef' = [coef EXCEPT !.single =
                   [kind |-> "built"] @@
                   coefficients(<< coef.c >>, << coef.axis[1] >>,
                                coef.freq_array)]
    /\ UNCHANGED << solver_vars, kernel >>

\* The set-up with the table whose samples all are c.
BuildMulti ==
    /\ coef.pc = "run"
    /\ coef.multi = None
    /\ coef' = [coef EXCEPT !.multi =
                   [kind |-> "built"] @@
                   coefficients([i \in 1 .. Len(coef.axis) |-> coef.c],
                                coef.axis, coef.freq_array)]
    /\ UNCHANGED << solver_vars, kernel >>

CoefNext == BuildSingle \/ BuildMulti

SpecCoef == CoefInit /\ [][CoefNext]_vars

----------------------------------------------------------------------------
\* The z grid on its own (line 217), for a fiber of any positive length and
\* any positive z_resolution, both whole numbers of metres.

\* Longest fiber of the grid runs, in metres.
MaxGridLength == 12
\* Largest z_resolution of the grid runs, in metres.
MaxGridStep == 5

GridInit ==
    /\ SolverIdle
    /\ coef = [pc |-> "idle"]
    /\ kernel \in [ pc : {"grid"}, fiber_length : 1 .. MaxGridLength,
                    z_resolution : 1 .. MaxGridStep, done : {FALSE},
                    z : {<< >>} ]

\* z = np.arange(0, fiber_length+1, z_resolution), the grid given to solve_bvp.
BuildGrid ==
    /\ kernel.pc = "grid"
    /\ ~kernel.done
    /\ kernel' = [kernel EXCEPT !.done = TRUE,
                                !.z = z_of(kernel.fiber_length,
                                           kernel.z_resolution)]
    /\ UNCHANGED << solver_vars, coef >>

GridNext == BuildGrid

SpecGrid == GridInit /\ [][GridNext]_vars

----------------------------------------------------------------------------
\* The boundary residual on its own: boundary_residual(ya, yb) of line 220 on
\* two slices of any directions, on end values ya and yb that solve_bvp passes
\* in or on the two ends of the initial guess, and once more after one end
\* value has been changed.

\* End values of a solution under iteration, one per slice.
EndValues == [1 .. 2 -> 0 .. MaxPower]

ResidualInit ==
    /\ SolverIdle
    /\ coef = [pc |-> "idle"]
    /\ kernel \in [ pc : {"residual"},
                    power_spectrum : [1 .. 2 -> 1 .. MaxPower],
                    prop_direct : [1 .. 2 -> {1, -1}],
                    ya : EndValues, yb : EndValues,
                    done : {FALSE}, residual : {<< >>},
                    changed : {FALSE}, ya2 : {<< >>}, yb2 : {<< >>},
                    residual2 : {<< >>} ]

\* boundary_residual(ya, yb) on the end values solve_bvp passes in.
EvalResiduals ==
    /\ kernel.pc = "residual"
    /\ ~kernel.done
    /\ kernel' = [kernel EXCEPT
                     !.done = TRUE,
                     !.residual = _residuals_raman(kernel.ya, kernel.yb,
                                                   kernel.power_spectrum,
                                                   kernel.prop_direct)]
    /\ UNCHANGED << solver_vars, coef >>

\* boundary_residual on the two ends of the initial guess; the target powers
\* are taken as fixed-point numbers, as the guess is.
EvalResidualsOfGuess ==
    /\ kernel.pc = "residual"
    /\ ~kernel.done
    /\ \E fiber_length \in 1 .. 2, alphap_fiber \in [1 .. 2 -> 0 .. 1] :
           LET z == z_of(fiber_length, 1)
               power_spectrum ==
                   [i \in 1 .. 2 |-> One * kernel.power_spectrum[i]]
               power_guess ==
                   _initial_guess_raman(z, kernel.power_spectrum,
                                        alphap_fiber, kernel.prop_direct)
               ya == [i \in 1 .. 2 |-> power_guess[i][1]]
               yb == [i \in 1 .. 2 |-> power_guess[i][Len(z)]]
           IN  kernel' = [kernel EXCEPT
                             !.done = TRUE,
                             !.power_spectrum = power_spectrum,
                             !.ya = ya,
                             !.yb = yb,
                             !.residual =
                                 _residuals_raman(ya, yb, power_spectrum,
                                                  kernel.prop_direct)]
    /\ UNCHANGED << solver_vars, coef >>

\* boundary_residual once more, one end value of one slice being another.
EvalResidualsAgain ==
    /\ kernel.pc = "residual"
    /\ kernel.done
    /\ ~kernel.changed
    /\ \E end \in {"ya", "yb"}, index \in 1 .. 2, v \in 0 .. MaxPower :
           LET ya2 == IF end = "ya" THEN [kernel.ya EXCEPT ![index] = v]
                      ELSE kernel.ya
               yb2 == IF end = "yb" THEN [kernel.yb EXCEPT ![index] = v]
                      ELSE kernel.yb
           IN  /\ << ya2, yb2 >> # << kernel.ya, kernel.yb >>
               /\ kernel' = [kernel EXCEPT
                                !.changed = TRUE,
                                !.ya2 = ya2,
                                !.yb2 = yb2,
                                !.residual2 =
                                    _residuals_raman(ya2, yb2,
                                                     kernel.power_spectrum,
                                                     kernel.prop_direct)]
    /\ UNCHANGED << solver_vars, coef >>

ResidualNext == EvalResiduals \/ EvalResidualsOfGuess \/ EvalResidualsAgain

SpecResidual == ResidualInit /\ [][ResidualNext]_vars

----------------------------------------------------------------------------
\* The ODE right-hand side on its own: ode_function(z, p) of line 219 on two
\* or three slices and two grid points, with the coupling matrix that lines
\* 209-214 build from a Raman table sampled at the offsets 0 .. MaxFreq - 1.

\* Slice frequencies in strictly increasing or strictly decreasing order.
OdeFreqArrays ==
    { f \in UNION { [1 .. n -> 1 .. MaxFreq] : n \in 2 .. 3 } :
        \/ \A i \in 1 .. (Len(f) - 1) : f[i] < f[i + 1]
        \/ \A i \in 1 .. (Len(f) - 1) : f[i] > f[i + 1] }

\* Raman tables over the offsets 0 .. MaxFreq - 1, each sample 0 or MaxCoef.
OdeRamanTables ==
    { [cr |-> c, frequency |-> [i \in 1 .. MaxFreq |-> i - 1]] :
        c \in [1 .. MaxFreq -> {0, MaxCoef}] }

\* The arguments of one call for the slices freq_array: the powers p at the
\* first grid point and the power v for all at the second, the attenuation a
\* for all slices, the Raman table t, and every slice forward but the last,
\* of direction d.
OdeArguments(freq_array, p, v, a, t, d) ==
    LET n == Len(freq_array)
    IN  [ pc |-> "ode",
          z |-> << 0, 1 >>,
          power_spectrum |-> [i \in 1 .. n |-> << p[i], v >>],
          alphap_fiber |-> [i \in 1 .. n |-> a],
          freq_array |-> freq_array,
          cr_raman_matrix |-> cr_of(t, freq_diff_of(freq_array)).val,
          prop_direct |-> [i \in 1 .. n |-> IF i = n THEN d ELSE 1],
          done |-> FALSE,
          gain_terms |-> << >>,
          loss_terms |-> << >>,
          dpdz |-> << >> ]

OdeInit ==
    /\ SolverIdle
    /\ coef = [pc |-> "idle"]
    /\ \E freq_array \in OdeFreqArrays, t \in OdeRamanTables :
       \E p \in [1 .. Len(freq_array) -> 0 .. MaxPower] :
       \E v \in {0, MaxPower}, a \in {0, 1}, d \in {1, -1} :
           kernel = OdeArguments(freq_array, p, v, a, t, d)

\* ode_function(z, p): _ode_raman, with the terms it sums for each slice and
\* grid point.
EvalOde ==
    /\ kernel.pc = "ode"
    /\ ~kernel.done
    /\ LET n == Len(kernel.freq_array)
           m == Len(kernel.z)
       IN  kernel' = [kernel EXCEPT
               !.done = TRUE,
               !.gain_terms =
                   [f_ind \in 1 .. n |-> [z_ind \in 1 .. m |->
                       raman_gain_terms(f_ind, z_ind, kernel.power_spectrum,
                                        kernel.cr_raman_matrix)]],
               !.loss_terms =
                   [f_ind \in 1 .. n |-> [z_ind \in 1 .. m |->
                       raman_loss_terms(f_ind, z_ind, kernel.power_spectrum,
                                        kernel.freq_array,
                                        kernel.cr_raman_matrix)]],
               !.dpdz = _ode_raman(kernel.z, kernel.power_spectrum,
                                   kernel.alphap_fiber, kernel.freq_array,
                                   kernel.cr_raman_matrix,
                                   kernel.prop_direct)]
    /\ UNCHANGED << solver_vars, coef >>

OdeNext == EvalOde

SpecOde == OdeInit /\ [][OdeNext]_vars

----------------------------------------------------------------------------
\* Properties.

Setters == { "fiber_information=", "spectral_information=",
             "raman_pump_information=", "solver_params=" }

\* The last operation was a read of raman_bvp_solution that returned a profile.
ReadBvpReturned == last_op = "raman_bvp_solution" /\ ret.kind = "profile"

AllInputsSet ==
    /\ _fiber_information.kind # "None"
    /\ _spectral_information.kind # "None"
    /\ _raman_pump_information.kind # "None"
    /\ _solver_params.kind # "None"

\* C1: a write through any of the four setters leaves the cached profile
\* empty, and a read never returns a profile computed from inputs other than
\* the current ones.
C1_SettersInvalidate ==
    /\ last_op \in Setters => _raman_bvp_solution.kind = "None"
    /\ ReadBvpReturned => ret.computed_from = CurrentInputs

\* C2: the second of two reads of raman_bvp_solution with no setter write
\* between them returns the object the first returned, which is the cached
\* one, and solve_bvp ran once since the write if the write left the cache
\* empty, and not at all if it did not.
C2_SecondReadCached ==
    (ReadBvpReturned /\ since_write.reads = 2) =>
        /\ ret = _raman_bvp_solution
        /\ ret.id = since_write.first
        /\ since_write.calls = (IF since_write.empty THEN 1 ELSE 0)

\* Two reads in a row after a write that left the cache empty.
C2_Witness ==
    /\ ReadBvpReturned
    /\ since_write.reads = 2
    /\ since_write.empty
    /\ since_write.calls = 1
    /\ AllInputsSet

\* C3: when solver_params is written while a profile is cached, the next read
\* of raman_bvp_solution runs solve_bvp again and returns an object that is
\* not the one cached before the write, built with the new solver_params.
C3_SolverParamsRecompute ==
    (ReadBvpReturned /\ since_write.by = "solver_params"
                     /\ since_write.prev # 0) =>
        /\ ret.id # since_write.prev
        /\ since_write.calls = 1
        /\ ret.computed_from.solver_params = _solver_params

\* The first read after solver_params was written over a cached profile.
C3_Witness ==
    /\ ReadBvpReturned
    /\ since_write.by = "solver_params"
    /\ since_write.prev # 0
    /\ since_write.reads = 1

C5_AseReadReturnsProfile ==
    (last_op = "raman_ase_solution" /\ AllInputsSet /\ ret.kind # "raise") =>
        /\ ret.kind = "AseProfile"
        /\ ret.z = _raman_bvp_solution.z
        /\ ret.frequency = _raman_bvp_solution.frequency

\* C6: a solve_bvp result that did not converge is neither returned by a read
\* of raman_bvp_solution nor kept in the cache.
C6_NonConvergedReported ==
    /\ _raman_bvp_solution.kind = "profile" => _raman_bvp_solution.status = 0
    /\ ReadBvpReturned => ret.status = 0

\* A profile with its four attributes, each of the shape of the inputs it
\* was computed from.
Complete(p) ==
    LET n == Len(compute_power_spectrum(p.computed_from.spectral_information,
                     p.computed_from.raman_pump_information).freq_array)
    IN  /\ Len(p.frequency) = n
        /\ Len(p.z) >= 2
        /\ Len(p.power) = n
        /\ Len(p.rho) = n
        /\ \A i \in 1 .. n : Len(p.power[i]) = Len(p.z) /\ Len(p.rho[i]) = Len(p.z)

C8_RhoOneAtLaunch ==
    (ReadBvpReturned /\ ret.status = 0) =>
        LET dir == compute_power_spectrum(
                       ret.computed_from.spectral_information,
                       ret.computed_from.raman_pump_information).prop_direct
            launch(i) == IF dir[i] = 1 THEN 0
                         ELSE ret.computed_from.fiber_information.length
        IN  \A i \in 1 .. Len(ret.rho) :
                \E k \in 1 .. Len(ret.z) :
                    ret.z[k] = launch(i) /\ ret.rho[i][k] = One

\* C9: the ASE power the integrator computes is 0 at the first grid point for
\* every slice of the frequency axis.
C9_AseZeroAtOrigin ==
    power_aselin.kind = "ok" =>
        \A f \in 1 .. Len(power_aselin.val) : power_aselin.val[f][1] = 0

\* The integrator ran on a profile with a backward slice and found ASE power
\* further along the fiber.
C9_Witness ==
    /\ power_aselin.kind = "ok"
    /\ \E f \in 1 .. Len(power_aselin.val) :
          \E k \in 2 .. Len(power_aselin.val[f]) : power_aselin.val[f][k] > 0
    /\ \E i \in 1 .. Len(_raman_pump_information.raman_pumps) :
          _raman_pump_information.raman_pumps[i].propagation_direction = -1


\* Both set-ups of the run are done.
CoefBuilt ==
    coef.pc = "run" /\ coef.single.kind = "built" /\ coef.multi.kind = "built"

\* Every slice frequency lies inside the samples' range.
SlicesInRange ==
    \A i \in 1 .. Len(coef.freq_array) :
        coef.axis[1] <= coef.freq_array[i]
        /\ coef.freq_array[i] <= coef.axis[Len(coef.axis)]

\* Every pairwise frequency offset lies inside the samples' range.
OffsetsInRange ==
    \A i, j \in 1 .. Len(coef.freq_array) :
        LET d == Abs(coef.freq_array[j] - coef.freq_array[i])
        IN  coef.axis[1] <= d /\ d <= coef.axis[Len(coef.axis)]

\* C10 as stated: for every slice list the table whose samples all are c
\* gives the attenuation vector and the coupling matrix the one-sample table
\* gives.
C10_SameForEverySliceList ==
    CoefBuilt =>
        /\ coef.multi.alphap_fiber = coef.single.alphap_fiber
        /\ coef.multi.cr = coef.single.cr

\* C10, amended: the one-sample table gives c for every slice and every pair,
\* whatever the frequencies; the table whose samples all are c gives the same
\* where the slice frequencies (for the attenuation) and the pairwise offsets
\* (for the coupling) lie inside its sampled range, and raises ValueError
\* where they do not.
C10_ScalarFallback ==
    CoefBuilt =>
        LET n == Len(coef.freq_array)
        IN  /\ coef.single.alphap_fiber = Ok([i \in 1 .. n |-> coef.c])
            /\ coef.single.cr = Ok([i \in 1 .. n |-> [j \in 1 .. n |-> coef.c]])
            /\ coef.multi.alphap_fiber =
                 (IF SlicesInRange THEN coef.single.alphap_fiber
                  ELSE Raise("ValueError"))
            /\ coef.multi.cr =
                 (IF OffsetsInRange THEN coef.single.cr
                  ELSE Raise("ValueError"))

\* Two slices with a nonzero c, both tables built, every frequency and offset
\* inside the three-sample table's range.
C10_Witness ==
    /\ CoefBuilt
    /\ coef.c > 1
    /\ Len(coef.freq_array) = 2
    /\ Len(coef.axis) = 3
    /\ SlicesInRange
    /\ OffsetsInRange
    /\ coef.multi.cr.kind = "ok"


GridBuilt == kernel.pc = "grid" /\ kernel.done

\* C11: for every positive fiber length and z_resolution the grid given to
\* solve_bvp starts at 0, rises in steps of z_resolution, and its last point
\* is the fiber length, neither short of it nor beyond it.
C11_GridSpansFiber ==
    GridBuilt =>
        /\ Len(kernel.z) >= 1
        /\ kernel.z[1] = 0
        /\ \A k \in 1 .. (Len(kernel.z) - 1) :
               kernel.z[k + 1] = kernel.z[k] + kernel.z_resolution
        /\ kernel.z[Len(kernel.z)] = kernel.fiber_length


ResidualsEvaluated == kernel.pc = "residual" /\ kernel.done

\* The end value that belongs to slice index: the start of the grid for
\* direction +1, the end of the grid for direction -1.
OwnEnd(ya, yb, index) ==
    IF kernel.prop_direct[index] = 1 THEN ya[index] ELSE yb[index]

\* C12: for any mix of directions the boundary residual of slice i is the
\* target power of i minus the solution value at the start of the grid when
\* the direction of i is +1 and minus the value at the end of the grid when it
\* is -1; it changes when that one end value changes and with no other end
\* value of i or of another slice.
C12_ResidualUsesOwnEnd ==
    ResidualsEvaluated =>
        \A i \in 1 .. Len(kernel.prop_direct) :
            /\ kernel.prop_direct[i] = 1 =>
                   kernel.residual[i] = kernel.power_spectrum[i] - kernel.ya[i]
            /\ kernel.prop_direct[i] = -1 =>
                   kernel.residual[i] = kernel.power_spectrum[i] - kernel.yb[i]
            /\ kernel.changed =>
                   (kernel.residual2[i] = kernel.residual[i]
                    <=> OwnEnd(kernel.ya2, kernel.yb2, i)
                        = OwnEnd(kernel.ya, kernel.yb, i))

\* One forward and one backward slice whose two end values differ; the start
\* value of the backward slice was changed and its residual stayed.
C12_Witness ==
    /\ ResidualsEvaluated
    /\ kernel.changed
    /\ kernel.prop_direct[1] = 1
    /\ kernel.prop_direct[2] = -1
    /\ kernel.ya[2] # kernel.yb[2]
    /\ kernel.ya2[2] # kernel.ya[2]
    /\ kernel.residual2 = kernel.residual
    /\ kernel.residual[2] # 0


OdeEvaluated == kernel.pc = "ode" /\ kernel.done

\* The lossless forward case: no attenuation, a symmetric coupling matrix
\* without negative entries, no negative power, every slice forward, and the slices
\* ordered by strictly increasing frequency.
OdeLossless ==
    LET n == Len(kernel.freq_array)
    IN  /\ \A i \in 1 .. n : kernel.alphap_fiber[i] = 0
        /\ \A i, j \in 1 .. n :
               /\ kernel.cr_raman_matrix[i][j] = kernel.cr_raman_matrix[j][i]
               /\ kernel.cr_raman_matrix[i][j] >= 0
        /\ \A i \in 1 .. n : \A k \in 1 .. Len(kernel.z) :
               kernel.power_spectrum[i][k] >= 0
        /\ \A i \in 1 .. n : kernel.prop_direct[i] = 1
        /\ \A i \in 1 .. (n - 1) :
               kernel.freq_array[i] < kernel.freq_array[i + 1]

\* The term of dP_i/dz that slice i gains from slice j > i at grid point k,
\* over the denominator of the loss terms.
GainTerm(i, j, k) ==
    SeqProd(kernel.freq_array) * kernel.gain_terms[i][k][j - i]
    * kernel.power_spectrum[i][k]

\* The term of dP_j/dz that slice j loses to slice i < j at grid point k.
LossTerm(j, i, k) == kernel.loss_terms[j][k][i] * kernel.power_spectrum[j][k]

\* C13: without attenuation, with a symmetric coupling matrix, entries and
\* powers not negative, every slice forward and the frequencies strictly
\* increasing, the sum over the slices of dP_i/dz is <= 0 at every grid point,
\* and for each pair i < j the term slice j loses to slice i is f_j / f_i
\* times the term slice i gains from slice j.
C13_ForwardPowerNonIncreasing ==
    (OdeEvaluated /\ OdeLossless) =>
        LET n == Len(kernel.freq_array)
        IN  \A k \in 1 .. Len(kernel.z) :
                /\ SeqSum([i \in 1 .. n |-> kernel.dpdz[i][k]]) <= 0
                /\ \A i, j \in 1 .. n :
                       i < j =>
                           LossTerm(j, i, k) * kernel.freq_array[i]
                           = GainTerm(i, j, k) * kernel.freq_array[j]

\* Three slices of the lossless forward case that exchange power: the lowest
\* frequency gains, the highest loses, and the total falls.
C13_Witness ==
    /\ OdeEvaluated
    /\ OdeLossless
    /\ Len(kernel.freq_array) = 3
    /\ GainTerm(1, 3, 1) > 0
    /\ GainTerm(2, 3, 1) > 0
    /\ kernel.dpdz[1][1] > 0
    /\ kernel.dpdz[3][1] < 0
    /\ SeqSum([i \in 1 .. 3 |-> kernel.dpdz[i][1]]) < 0

====
